---------------------------- MODULE Spec2Model ----------------------------
(***************************************************************************)
(* A model of symspell.js: the Symmetric Delete spelling corrector.        *)
(*                                                                         *)
(* Strings are sequences of one-character strings, so that the code's      *)
(* key = language + word is sequence concatenation and word.slice is       *)
(* SubSeq.  The empty JavaScript string '' (falsy) is the empty sequence.  *)
(* An omitted argument (undefined) is the one-element sequence Undefined.  *)
(***************************************************************************)
EXTENDS Integers, Sequences, FiniteSets

VARIABLES
  maxEditDistance,  \* this.maxEditDistance
  mode,             \* this.mode
  dictionary,       \* this.dictionary: key -> DictionaryItem
  call,             \* the last public call and what it returned
  added,            \* history: the <<language, word>> pairs given to addWord
  order,            \* history: the addWord calls in the order they were made
  addsLeft          \* how many more words the caller will add

vars == <<maxEditDistance, mode, dictionary, call, added, order, addsLeft>>

-----------------------------------------------------------------------------
(* Bounds of the model *)

\* longest word added or looked up
MaxLen == 3
\* most words added to one engine
MaxAdds == 2

Alphabet == {"i", "n"}

RECURSIVE StringsOfLen(_)
StringsOfLen(n) ==
  IF n = 0 THEN {<<>>}
  ELSE {Append(s, c) : s \in StringsOfLen(n - 1), c \in Alphabet}

\* every string over Alphabet of length at most n
StringsUpTo(n) == UNION {StringsOfLen(k) : k \in 0..n}

\* the terms handed to addWord: non-empty tokens
Words == StringsUpTo(MaxLen) \ {<<>>}
\* the inputs handed to lookup
Inputs == StringsUpTo(MaxLen)

-----------------------------------------------------------------------------
(* JavaScript values *)

Undefined == <<"undefined">>
\* a conversion that takes every language for the default one
StringOfDefault(v) == <<"u", "n", "d">>

\* what string concatenation makes of a value: undefined + word = "undefined..."
StringOf(v) ==
  IF v = Undefined THEN <<"u", "n", "d", "e", "f", "i", "n", "e", "d">> ELSE v
\* a || b for strings: undefined and '' are falsy
OrElse(v, d) == IF v = Undefined \/ v = <<>> THEN d ELSE v

und == <<"u", "n", "d">>
en == <<"e", "n">>

TOP == "TOP"
SMALLEST == "SMALLEST"
ALL == "ALL"
Modes == {TOP, SMALLEST, ALL}

\* new DictionaryItem(): Word.call(this); suggestions = []; count = 0
DictionaryItem == [term |-> <<>>, suggestions |-> <<>>, count |-> 0]
\* an EditItem with its fields set
EditItem(t, d) == [term |-> t, distance |-> d]
\* a SuggestItem with its fields set
SuggestItem(t, d, c) == [term |-> t, distance |-> d, count |-> c]

\* Word.prototype.equals: the terms are equal
WordEquals(a, b) == a.term = b.term

\* a list check that compares the objects themselves, not their terms: a fresh
\* object is in no list
wordListContainsByIdentity(list, value) == FALSE

wordListContains(list, value) ==
  \E i \in 1..Len(list) : WordEquals(list[i], value)

\* this.dictionary[key] is truthy: the key is present
Has(dict, key) == key \in DOMAIN dict

\* this.dictionary[key] = item
Put(dict, key, item) ==
  [k \in DOMAIN dict \cup {key} |-> IF k = key THEN item ELSE dict[k]]

-----------------------------------------------------------------------------
(* computePermutations *)

\* word.slice(0, i) + word.slice(i+1), for the 0-based i = p - 1
DeleteAt(word, p) == SubSeq(word, 1, p - 1) \o SubSeq(word, p + 1, Len(word))

\* permutations.indexOf(p) on a freshly made EditItem: Array.prototype.indexOf
\* compares objects by identity, and no fresh object is in the array yet.
IndexOfFresh(permutations, p) == -1

RECURSIVE computePermutations(_, _, _)
RECURSIVE computePermutationsFromOneLevel(_, _, _, _, _)
\* the for loop without its recursive call: one character deleted, never more
computePermutationsFromOneLevel(word, ed, maxED, p, permutations) ==
  IF p > Len(word) THEN permutations
  ELSE computePermutationsFromOneLevel(word, ed, maxED, p + 1,
         Append(permutations, EditItem(DeleteAt(word, p), ed)))

RECURSIVE computePermutationsFrom(_, _, _, _, _)
\* the for loop of computePermutations from position p (1-based), with the
\* permutations collected so far; ed is editDistance after the + 1
computePermutationsFrom(word, ed, maxED, p, permutations) ==
  IF p > Len(word) THEN permutations
  ELSE
    LET item == EditItem(DeleteAt(word, p), ed)
    IN IF IndexOfFresh(permutations, item) = -1
       THEN
         LET pushed == Append(permutations, item)
             \* typeof maxEditDistance !== 'undefined': both callers pass it
             next == IF ed < maxED
                     THEN computePermutations(item.term, ed, maxED)
                     ELSE <<>>
         IN computePermutationsFrom(word, ed, maxED, p + 1, pushed \o next)
       ELSE computePermutationsFrom(word, ed, maxED, p + 1, permutations)

computePermutations(word, editDistance, maxED) ==
  IF Len(word) > 1
  THEN computePermutationsFrom(word, editDistance + 1, maxED, 1, <<>>)
  ELSE <<>>

-----------------------------------------------------------------------------
(* addWord *)

addOrTerminateEarly(suggestions, suggestion, m) ==
  LET kept == IF m # ALL /\ Len(suggestions) > 0
                 /\ suggestions[1].distance > suggestion.distance
              THEN <<>> ELSE suggestions
  IN IF m = ALL \/ Len(kept) = 0 \/ kept[1].distance >= suggestion.distance
     THEN Append(kept, suggestion)
     ELSE kept

RECURSIVE addWordLoop(_, _, _, _, _, _)
\* the for loop of addWord over possibleSuggestions, from index i
addWordLoop(dict, m, word, language, ps, i) ==
  IF i > Len(ps) THEN dict
  ELSE
    LET suggestion == EditItem(word, ps[i].distance)
        key == StringOf(language) \o ps[i].term
        dict2 ==
          IF Has(dict, key)
          THEN IF ~wordListContains(dict[key].suggestions, suggestion)
               THEN Put(dict, key,
                        [dict[key] EXCEPT !.suggestions =
                           addOrTerminateEarly(dict[key].suggestions, suggestion, m)])
               ELSE dict
          ELSE Put(dict, key, [DictionaryItem EXCEPT !.suggestions = <<suggestion>>])
    IN addWordLoop(dict2, m, word, language, ps, i + 1)

\* the dictionary after addWord(word, language) on the engine self
addWord(self, word, language) ==
  LET key == StringOf(language) \o word
      dict == self.dictionary
      dict2 ==
        IF Has(dict, key) THEN dict
        ELSE addWordLoop(Put(dict, key, [DictionaryItem EXCEPT !.term = word]),
                         self.mode, word, language,
                         computePermutations(word, 0, self.maxEditDistance), 1)
  IN [dict2 EXCEPT ![key].count = @ + 1]

-----------------------------------------------------------------------------
(* distance: the Damerau-Levenshtein table *)

\* the characters of a string
Chars(s) == {s[k] : k \in 1..Len(s)}

Min(a, b) == IF a < b THEN a ELSE b

\* the table after the three initialising loops: row 0 and column 0 hold INF,
\* score[i+1][1] = i and score[1][j+1] = j
InitialScore(m, n) ==
  [r \in 0..(m + 1), c \in 0..(n + 1) |->
     IF r = 0 \/ c = 0 THEN m + n
     ELSE IF c = 1 THEN r - 1
     ELSE IF r = 1 THEN c - 1
     ELSE 0]

RECURSIVE distanceInnerRestricted(_, _, _, _, _, _, _)
\* the inner loop of the optimal-string-alignment variant: a transposition
\* only of two characters that are adjacent in both strings
distanceInnerRestricted(source, target, i, j, score, sd, DB) ==
  IF j > Len(target) THEN score
  ELSE
    LET same == source[i] = target[j]
        first == IF same THEN score[i, j]
                 ELSE Min(score[i, j], Min(score[i + 1, j], score[i, j + 1])) + 1
        swapped == /\ i > 1
                   /\ j > 1
                   /\ source[i] = target[j - 1]
                   /\ source[i - 1] = target[j]
        cell == IF swapped THEN Min(first, score[i - 1, j - 1] + 1) ELSE first
    IN distanceInnerRestricted(source, target, i, j + 1,
                               [score EXCEPT ![i + 1, j + 1] = cell], sd, DB)

RECURSIVE distanceInner(_, _, _, _, _, _, _)
\* the inner for loop (over j) of row i; returns the table
distanceInner(source, target, i, j, score, sd, DB) ==
  IF j > Len(target) THEN score
  ELSE
    LET i1 == sd[target[j]]
        j1 == DB
        same == source[i] = target[j]
        first == IF same THEN score[i, j]
                 ELSE Min(score[i, j], Min(score[i + 1, j], score[i, j + 1])) + 1
        \* score[i1] is an array for every i1 in 0..m, so never the Infinity arm
        cell == Min(first, score[i1, j1] + (i - i1 - 1) + 1 + (j - j1 - 1))
    IN distanceInner(source, target, i, j + 1,
                     [score EXCEPT ![i + 1, j + 1] = cell], sd,
                     IF same THEN j ELSE DB)

RECURSIVE distanceOuter(_, _, _, _, _)
\* the outer for loop (over i); returns the table
distanceOuter(source, target, i, score, sd) ==
  IF i > Len(source) THEN score
  ELSE distanceOuter(source, target, i + 1,
                     distanceInner(source, target, i, 1, score, sd, 0),
                     [sd EXCEPT ![source[i]] = i])

distance(source, target) ==
  IF source = <<>> THEN Len(target)
  ELSE IF target = <<>> THEN Len(source)
  ELSE LET m == Len(source)
           n == Len(target)
           sd == [c \in Chars(source) \cup Chars(target) |-> 0]
       IN distanceOuter(source, target, 1, InitialScore(m, n), sd)[m + 1, n + 1]

\* realEditDistance without the verifying arm: the deletions on the input's
\* side are taken for the distance
realEditDistanceUnverified(dictItem, inputPermutation, input) ==
  IF dictItem.term = input THEN 0
  ELSE IF dictItem.distance = 0 THEN inputPermutation.distance
  ELSE IF inputPermutation.distance = 0 THEN dictItem.distance
  ELSE inputPermutation.distance

realEditDistance(dictItem, inputPermutation, input) ==
  IF dictItem.term = input THEN 0
  ELSE IF dictItem.distance = 0 THEN inputPermutation.distance
  ELSE IF inputPermutation.distance = 0 THEN dictItem.distance
  ELSE distance(dictItem.term, input)

-----------------------------------------------------------------------------
(* lookup *)

\* a comparator that forgets the counts
compareDistanceOnly(a, b) == a.distance - b.distance

\* the comparator given to Array.prototype.sort
compare(a, b) ==
  LET d == a.distance - b.distance
  IN IF d # 0 THEN d ELSE b.count - a.count

RECURSIVE InsertSorted(_, _)
\* x put into the sorted list, behind every element that does not follow it
InsertSorted(list, x) ==
  IF list = <<>> THEN <<x>>
  ELSE IF compare(Head(list), x) > 0 THEN <<x>> \o list
  ELSE <<Head(list)>> \o InsertSorted(Tail(list), x)

RECURSIVE SortFrom(_, _, _)
SortFrom(list, i, sorted) ==
  IF i > Len(list) THEN sorted
  ELSE SortFrom(list, i + 1, InsertSorted(sorted, list[i]))

\* suggestions.sort(comparator): a stable sort
ArraySort(list) == SortFrom(list, 1, <<>>)

\* a.term is truthy
HasTerm(a) == a.term # <<>>

\* sort() is called as a plain function, so inside it `this` is not the engine
\* but the global object (the file is not in strict mode), whose mode property
\* nobody sets
UndefinedMode == "undefined"
SortThisMode == UndefinedMode

\* the inner function sort() of lookup
sort(suggestions) ==
  LET sorted == SelectSeq(ArraySort(suggestions), HasTerm)
  IN IF SortThisMode = TOP /\ Len(sorted) > 1 THEN <<sorted[1]>> ELSE sorted

\* an enqueue loop without the test of line 206: every permutation is queued
pushNewAll(candidates, perms, j) ==
  candidates \o SubSeq(perms, j, Len(perms))

RECURSIVE pushNew(_, _, _)
\* the loop that enqueues the permutations not yet in the queue
pushNew(candidates, perms, j) ==
  IF j > Len(perms) THEN candidates
  ELSE pushNew(IF ~wordListContains(candidates, perms[j])
               THEN Append(candidates, perms[j]) ELSE candidates,
               perms, j + 1)

\* a nearby term let in whatever its distance
WithinMaxUnchecked(d, maxED) == TRUE

\* distance < this.maxEditDistance: what lets a nearby term in
WithinMax(d, maxED) == d < maxED

RECURSIVE nearbyLoop(_, _, _, _, _, _, _)
\* the for loop over this.dictionary[key].suggestions, from index i; returns
\* the suggestions
nearbyLoop(self, s, i, suggestions, candidate, word, language) ==
  IF i > Len(s) THEN suggestions
  ELSE
    LET suggestion == s[i]
    IN IF wordListContains(suggestions, suggestion)
       THEN nearbyLoop(self, s, i + 1, suggestions, candidate, word, language)
       ELSE
         LET dist == realEditDistance(suggestion, candidate, word)
             pruning == self.mode # ALL /\ Len(suggestions) > 0
             cleared == pruning /\ suggestions[1].distance > dist
             skipped == pruning /\ ~cleared /\ dist > suggestions[1].distance
             kept == IF cleared THEN <<>> ELSE suggestions
             key == language \o suggestion.term
         IN IF skipped
            THEN nearbyLoop(self, s, i + 1, suggestions, candidate, word, language)
            ELSE IF WithinMax(dist, self.maxEditDistance) /\ Has(self.dictionary, key)
            THEN nearbyLoop(self, s, i + 1,
                            Append(kept, SuggestItem(self.dictionary[key].term, dist,
                                                     self.dictionary[key].count)),
                            candidate, word, language)
            ELSE nearbyLoop(self, s, i + 1, kept, candidate, word, language)

\* the early-stop check without its first half: the search goes on past the
\* best distance found
StopsBeforeMaxOnly(self, candidate, suggestions) ==
  candidate.distance > self.maxEditDistance

\* the early-stop check at the head of the while loop
StopsBefore(self, candidate, suggestions) ==
  \/ /\ self.mode # ALL
     /\ Len(suggestions) > 0
     /\ candidate.distance > suggestions[1].distance
  \/ candidate.distance > self.maxEditDistance

\* where the while loop of lookup ended: what it returns, the candidates it
\* took from the queue in order, whether the early-stop check ended it, and
\* the queue and the suggestions at that point
Ended(returned, popped, stopped, candidates, suggestions) ==
  [returned |-> returned, popped |-> popped, stopped |-> stopped,
   candidates |-> candidates, suggestions |-> suggestions]

RECURSIVE lookupLoop(_, _, _, _, _, _)
\* the while loop of lookup; popped holds the candidates shifted so far
lookupLoop(self, candidates, suggestions, word, language, popped) ==
  IF Len(candidates) = 0
  THEN Ended(sort(suggestions), popped, FALSE, candidates, suggestions)
  ELSE
    LET candidate == Head(candidates)
        rest == Tail(candidates)
        shifted == Append(popped, candidate)
        key == language \o candidate.term
        dict == self.dictionary
    IN IF StopsBefore(self, candidate, suggestions)
       THEN Ended(sort(suggestions), shifted, TRUE, rest, suggestions)
       ELSE
         LET found == Has(dict, key)
             si == SuggestItem(dict[key].term, candidate.distance, dict[key].count)
             isNew == found /\ ~wordListContains(suggestions, si)
             pushed == IF isNew THEN Append(suggestions, si) ELSE suggestions
             exact == isNew /\ self.mode # ALL /\ candidate.distance = 0
             after == IF found
                      THEN nearbyLoop(self, dict[key].suggestions, 1, pushed,
                                      candidate, word, language)
                      ELSE suggestions
             queue == IF candidate.distance < self.maxEditDistance
                      THEN pushNew(rest,
                                   computePermutations(candidate.term,
                                                       candidate.distance, 0), 1)
                      ELSE rest
         IN IF exact THEN Ended(sort(pushed), shifted, FALSE, rest, pushed)
            ELSE lookupLoop(self, queue, after, word, language, shifted)

\* the run of lookup(word, language) on the engine self
lookupRun(self, word, languageArg) ==
  LET language == OrElse(languageArg, und)
  IN lookupLoop(self, <<EditItem(word, 0)>>, <<>>, word, language, <<>>)

\* what lookup(word, language) returns on the engine self
lookup(self, word, languageArg) == lookupRun(self, word, languageArg).returned

-----------------------------------------------------------------------------
(* The engine as a state machine *)

\* the engine object
Self == [maxEditDistance |-> maxEditDistance, mode |-> mode,
         dictionary |-> dictionary]

\* the largest maxEditDistance given to the constructor
MaxDistanceArg == 3
\* the constructor's first argument; 0 stands for an omitted one too (both falsy)
DistanceArgs == 0..MaxDistanceArg
\* the constructor's second argument
ModeArgs == Modes \cup {UndefinedMode}

\* the languages the callers of the main specification use
Languages == {en}

NoCall == [op |-> "new", word |-> <<>>, language |-> <<>>, result |-> <<>>]

\* new SymSpell(maxEditDistance, mode)
Init ==
  /\ \E d \in DistanceArgs : maxEditDistance = IF d # 0 THEN d ELSE 2
  /\ \E m \in ModeArgs : mode = IF m = UndefinedMode THEN ALL ELSE m
  /\ dictionary = <<>>
  /\ call = NoCall
  /\ added = {}
  /\ order = <<>>
  /\ addsLeft = MaxAdds

AddWord(word, language) ==
  /\ addsLeft > 0
  /\ dictionary' = addWord(Self, word, language)
  /\ call' = [op |-> "addWord", word |-> word, language |-> language,
              result |-> <<>>]
  /\ added' = added \cup {<<language, word>>}
  /\ order' = Append(order, <<language, word>>)
  /\ addsLeft' = addsLeft - 1
  /\ UNCHANGED <<maxEditDistance, mode>>

Lookup(word, language) ==
  /\ call' = [op |-> "lookup", word |-> word, language |-> language,
              result |-> lookup(Self, word, language)]
  /\ UNCHANGED <<maxEditDistance, mode, dictionary, added, order, addsLeft>>

Next ==
  \/ \E w \in Words, l \in Languages : AddWord(w, l)
  \/ \E w \in Inputs, l \in Languages : Lookup(w, l)

Spec == Init /\ [][Next]_vars

(* A caller that adds one word more, of shorter words: repeated additions   *)
(* and counts that differ                                                   *)

ShortWords == StringsUpTo(MaxLen - 1) \ {<<>>}
ShortInputs == StringsUpTo(MaxLen - 1)

InitRepeat ==
  /\ \E d \in DistanceArgs : maxEditDistance = IF d # 0 THEN d ELSE 2
  /\ \E m \in ModeArgs : mode = IF m = UndefinedMode THEN ALL ELSE m
  /\ dictionary = <<>>
  /\ call = NoCall
  /\ added = {}
  /\ order = <<>>
  /\ addsLeft = MaxAdds + 1

NextRepeat ==
  \/ \E w \in ShortWords, l \in Languages : AddWord(w, l)
  \/ \E w \in ShortInputs, l \in Languages : Lookup(w, l)

SpecRepeat == InitRepeat /\ [][NextRepeat]_vars

(* Callers that leave the language out, or give "und" or "en"              *)

LanguageArgs == {Undefined, und, en}

\* what a tokenizer makes of a corpus: one or two words
Corpora == {<<w>> : w \in ShortWords} \cup (ShortWords \X ShortWords)

RECURSIVE addWordsLoop(_, _, _, _)
\* the for loop of addWords over the tokenizer's words, from index i; returns
\* the dictionary
addWordsLoop(self, words, language, i) ==
  IF i > Len(words) THEN self.dictionary
  ELSE addWordsLoop([self EXCEPT !.dictionary = addWord(self, words[i], language)],
                    words, language, i + 1)

\* the dictionary after addWords(corpus, language, tokenizer), where the
\* tokenizer makes words of the corpus
addWords(self, words, languageArg) ==
  addWordsLoop(self, words, OrElse(languageArg, und), 1)

AddWords(words, language) ==
  /\ addsLeft >= Len(words)
  /\ dictionary' = addWords(Self, words, language)
  /\ call' = [op |-> "addWords", word |-> words, language |-> language,
              result |-> <<>>]
  /\ added' = added \cup {<<OrElse(language, und), words[k]>> : k \in 1..Len(words)}
  /\ order' = order \o [k \in 1..Len(words) |-> <<OrElse(language, und), words[k]>>]
  /\ addsLeft' = addsLeft - Len(words)
  /\ UNCHANGED <<maxEditDistance, mode>>

NextLanguages ==
  \/ \E w \in ShortWords, l \in LanguageArgs : AddWord(w, l)
  \/ \E ws \in Corpora, l \in LanguageArgs : AddWords(ws, l)
  \/ \E w \in ShortInputs, l \in LanguageArgs : Lookup(w, l)

SpecLanguages == Init /\ [][NextLanguages]_vars

(* Callers that use several languages, one of them a prefix of another     *)

IsolationLanguages == {<<"e">>, en, und}

NextIsolation ==
  \/ \E w \in ShortWords, l \in IsolationLanguages : AddWord(w, l)
  \/ \E w \in ShortInputs, l \in IsolationLanguages : Lookup(w, l)

SpecIsolation == Init /\ [][NextIsolation]_vars

(* The helper functions called on their own                                *)

\* the characters of the strings distance is called on
DistanceAlphabet == {"a", "b", "c"}

RECURSIVE StringsOverOfLen(_, _)
StringsOverOfLen(sigma, n) ==
  IF n = 0 THEN {<<>>}
  ELSE {Append(s, c) : s \in StringsOverOfLen(sigma, n - 1), c \in sigma}

\* the strings distance is called on
DistanceStrings == UNION {StringsOverOfLen(DistanceAlphabet, k) : k \in 0..MaxLen}

\* the arguments of a call that has not run yet
DistanceArguments ==
  {[op |-> "arguments", of |-> "distance", source |-> a, target |-> b] :
     a \in DistanceStrings, b \in DistanceStrings}

\* the arguments computePermutations is called with: by addWord
\* (word, 0, this.maxEditDistance) and by lookup (candidate.term,
\* candidate.distance, 0) with candidate.distance < this.maxEditDistance
PermutationsArguments ==
  {[op |-> "arguments", of |-> "computePermutations", word |-> w,
    editDistance |-> 0, maxEditDistance |-> k] :
     w \in DistanceStrings, k \in 1..MaxDistanceArg}
  \cup
  {[op |-> "arguments", of |-> "computePermutations", word |-> w,
    editDistance |-> d, maxEditDistance |-> 0] :
     w \in DistanceStrings, d \in 0..(MaxDistanceArg - 1)}

FunctionArguments == DistanceArguments \cup PermutationsArguments

\* new SymSpell(): the defaults, and the arguments of the call to come
InitFunctions ==
  /\ maxEditDistance = 2
  /\ mode = ALL
  /\ dictionary = <<>>
  /\ call \in FunctionArguments
  /\ added = {}
  /\ order = <<>>
  /\ addsLeft = 0

Distance ==
  /\ call.op = "arguments"
  /\ call.of = "distance"
  /\ call' = [op |-> "distance", source |-> call.source, target |-> call.target,
              result |-> distance(call.source, call.target)]
  /\ UNCHANGED <<maxEditDistance, mode, dictionary, added, order, addsLeft>>

Permutations ==
  /\ call.op = "arguments"
  /\ call.of = "computePermutations"
  /\ call' = [op |-> "computePermutations", word |-> call.word,
              editDistance |-> call.editDistance,
              maxEditDistance |-> call.maxEditDistance,
              result |-> computePermutations(call.word, call.editDistance,
                                             call.maxEditDistance)]
  /\ UNCHANGED <<maxEditDistance, mode, dictionary, added, order, addsLeft>>

NextFunctions ==
  \/ Distance
  \/ Permutations

SpecFunctions == InitFunctions /\ [][NextFunctions]_vars

-----------------------------------------------------------------------------
(* The reference the claims measure against: the Damerau-Levenshtein       *)
(* distance as the length of a shortest sequence of single edits           *)

\* the strings one edit away: a deletion, an insertion, a substitution or a
\* transposition of two adjacent characters
Edits1(s) ==
  {DeleteAt(s, p) : p \in 1..Len(s)}
  \cup {SubSeq(s, 1, p) \o <<c>> \o SubSeq(s, p + 1, Len(s)) :
          p \in 0..Len(s), c \in Alphabet}
  \cup {[s EXCEPT ![p] = c] : p \in 1..Len(s), c \in Alphabet}
  \cup {[s EXCEPT ![p] = s[p + 1], ![p + 1] = s[p]] : p \in 1..(Len(s) - 1)}

RECURSIVE WithinEdits(_, _)
\* the strings at most k edits away from s, through strings one longer than
\* any word at most
WithinEdits(s, k) ==
  IF k = 0 THEN {s}
  ELSE LET b == WithinEdits(s, k - 1)
       IN b \cup {t \in UNION {Edits1(u) : u \in b} : Len(t) <= MaxLen + 1}

\* the least number of edits from a to b
EditsBetween(a, b) ==
  CHOOSE k \in 0..(Len(a) + Len(b)) :
    /\ b \in WithinEdits(a, k)
    /\ k = 0 \/ b \notin WithinEdits(a, k - 1)

\* the true distance of every pair of strings of the model
TrueDistance == [a \in Inputs, b \in Inputs |-> EditsBetween(a, b)]

\* the terms added under the language argument l
TermsAdded(l) == {p[2] : p \in {q \in added : q[1] = l}}

\* the terms of the list the last call returned
ResultTerms == {call.result[k].term : k \in 1..Len(call.result)}

\* the last call was lookup
Looked == call.op = "lookup"

-----------------------------------------------------------------------------
(* Claims *)

in == <<"i", "n">>
nn == <<"n", "n">>

\* C1: in ALL mode lookup(w, L) returns every term added under L whose
\* Damerau-Levenshtein distance to w is at most maxEditDistance.
C1_AllModeComplete ==
  (Looked /\ mode = ALL) =>
    \A t \in TermsAdded(call.language) :
      TrueDistance[call.word, t] <= maxEditDistance => t \in ResultTerms

\* C2: every suggestion lookup returns carries the true Damerau-Levenshtein
\* distance between the input and the suggestion's term.
C2_DistanceIsTrue ==
  Looked =>
    \A k \in 1..Len(call.result) :
      call.result[k].distance = TrueDistance[call.word, call.result[k].term]

\* a suggestion as long as the input, and not the input itself, was returned: it
\* was reached through deletions on both sides and its distance was computed
C2_Witness ==
  /\ Looked
  /\ \E k \in 1..Len(call.result) :
       /\ Len(call.result[k].term) = Len(call.word)
       /\ call.result[k].term # call.word
       /\ call.result[k].distance = 2

\* C3: after addWord(t, L) returns, the entry at key (L, t) has its term set
\* to t, whatever was added before.
C3_AddedTermIsCanonical ==
  call.op = "addWord" =>
    /\ Has(dictionary, StringOf(call.language) \o call.word)
    /\ dictionary[StringOf(call.language) \o call.word].term = call.word

\* C4: in SMALLEST or TOP mode, once word was added under L, lookup(word, L)
\* returns a list whose first element is word at distance 0.
C4_ExactMatchFirst ==
  (Looked /\ mode \in {SMALLEST, TOP} /\ call.word \in TermsAdded(call.language)) =>
    /\ Len(call.result) >= 1
    /\ call.result[1].term = call.word
    /\ call.result[1].distance = 0

\* C5: in TOP mode lookup returns a list of length at most 1.
C5_TopReturnsAtMostOne ==
  (Looked /\ mode = TOP) => Len(call.result) <= 1

\* C6: in SMALLEST mode all the suggestions lookup returns have the same
\* distance.
C6_SmallestSharesDistance ==
  (Looked /\ mode = SMALLEST) =>
    \A j, k \in 1..Len(call.result) :
      call.result[j].distance = call.result[k].distance

\* SMALLEST mode returned several suggestions, none of them the input itself
C6_Witness ==
  /\ Looked
  /\ mode = SMALLEST
  /\ Len(call.result) >= 2
  /\ call.result[1].distance >= 1

\* t and w have the same length and differ in exactly one character
OneSubstitution(t, w) ==
  /\ Len(t) = Len(w)
  /\ Cardinality({p \in 1..Len(t) : t[p] # w[p]}) = 1

\* C7: for every maxEditDistance >= 1, after addWord("in", "en") alone,
\* lookup("nn", "en") contains "in" at distance 1; and so for every term of
\* length >= 2 and every input one substitution away from it.
C7_SubstitutionFound ==
  \A t \in Words :
    (/\ Looked
     /\ added = {<<call.language, t>>}
     /\ Len(t) >= 2
     /\ OneSubstitution(t, call.word)) =>
      \E k \in 1..Len(call.result) :
        call.result[k].term = t /\ call.result[k].distance = 1

\* C8: addWord's language defaults to "und" as lookup's does: after
\* addWord(t) without a language the term is stored under key ("und", t), and
\* lookup(t) without a language returns t at distance 0.
C8_AddWordDefaultsToUnd ==
  /\ (call.op = "addWord" /\ call.language = Undefined) =>
       /\ Has(dictionary, und \o call.word)
       /\ dictionary[und \o call.word].term = call.word
  /\ (Looked /\ call.language = Undefined /\ added = {<<Undefined, call.word>>}) =>
       \E k \in 1..Len(call.result) :
         call.result[k].term = call.word /\ call.result[k].distance = 0

\* C9: the list lookup returns is sorted: distances do not decrease, and among
\* neighbours of equal distance the counts do not increase.
C9_ResultIsSorted ==
  Looked =>
    \A k \in 1..(Len(call.result) - 1) :
      \/ call.result[k].distance < call.result[k + 1].distance
      \/ /\ call.result[k].distance = call.result[k + 1].distance
         /\ call.result[k].count >= call.result[k + 1].count

\* two neighbours of equal distance were returned, the first with the larger
\* count
C9_Witness ==
  /\ Looked
  /\ \E k \in 1..(Len(call.result) - 1) :
       /\ call.result[k].distance = call.result[k + 1].distance
       /\ call.result[k].count > call.result[k + 1].count

\* C10: no suggestion lookup returns is farther than maxEditDistance.
C10_WithinMaxEditDistance ==
  Looked =>
    \A k \in 1..Len(call.result) : call.result[k].distance <= maxEditDistance

\* a suggestion exactly maxEditDistance away was returned, while another added
\* term lies farther than that and was left out
C10_Witness ==
  /\ Looked
  /\ \E k \in 1..Len(call.result) : call.result[k].distance = maxEditDistance
  /\ \E t \in TermsAdded(call.language) :
       TrueDistance[call.word, t] > maxEditDistance /\ t \notin ResultTerms

\* the engine after the step
SelfNext == [maxEditDistance |-> maxEditDistance', mode |-> mode',
             dictionary |-> dictionary']

\* the step is a call of addWord
AddWordStep == addsLeft' = addsLeft - 1 /\ call'.op = "addWord"

\* the key addWord computes in the step
StepKey == StringOf(call'.language) \o call'.word

\* no entry's list of nearby terms names a term twice
NoDuplicateNearbyTerms(dict) ==
  \A key \in DOMAIN dict :
    \A j, k \in 1..Len(dict[key].suggestions) :
      dict[key].suggestions[j].term = dict[key].suggestions[k].term => j = k

\* C11: adding again a term that is already canonical changes only that
\* entry's count, by exactly 1: the keys, every other entry and every list of
\* nearby terms stay as they are; and no list of nearby terms ever names a term
\* twice.
C11_ReAddOnlyCounts ==
  [][/\ (AddWordStep /\ Has(dictionary, StepKey)
           /\ dictionary[StepKey].term = call'.word) =>
          dictionary' = [dictionary EXCEPT ![StepKey].count = @ + 1]
     /\ NoDuplicateNearbyTerms(dictionary')]_vars

\* a term with delete-variants was added twice: its count is 2, and a list of
\* nearby terms names it
C11_Witness ==
  /\ call.op = "addWord"
  /\ Len(call.word) >= 2
  /\ dictionary[StringOf(call.language) \o call.word].term = call.word
  /\ dictionary[StringOf(call.language) \o call.word].count = 2
  /\ \E key \in DOMAIN dictionary :
       \E k \in 1..Len(dictionary[key].suggestions) :
         dictionary[key].suggestions[k].term = call.word

\* a is a prefix of b
IsPrefix(a, b) == Len(a) <= Len(b) /\ SubSeq(b, 1, Len(a)) = a

\* no identifier of the set is a prefix of another
PrefixFree(languages) ==
  \A a, b \in languages : a # b => ~IsPrefix(a, b)

\* the language identifiers words were added under, each given in full
LanguagesAdded(history) == {p[1] : p \in history}

\* the terms added under the identifier l
StoredUnder(l) == {p[2] : p \in {q \in added : q[1] = l}}

\* the identifier a lookup with the argument l reads under
LookupLanguage(l) == OrElse(l, und)

\* C12: when no language identifier in use is a prefix of another, lookup(w, L)
\* returns only terms added under L, and an addWord under another language L2
\* changes the result of no lookup under L.
C12_LanguagesIsolated ==
  [][/\ (call'.op = "lookup"
           /\ PrefixFree(LanguagesAdded(added') \cup {LookupLanguage(call'.language)})) =>
          \A k \in 1..Len(call'.result) :
            call'.result[k].term \in
              {p[2] : p \in {q \in added' :
                               q[1] = LookupLanguage(call'.language)}}
     /\ AddWordStep =>
          \A l \in IsolationLanguages \ {call'.language} :
            PrefixFree(LanguagesAdded(added') \cup {l}) =>
              \A w \in ShortInputs :
                lookup(SelfNext, w, l) = lookup(Self, w, l)]_vars

\* a lookup under "en" returned terms, all of them added under "en", while a
\* term one edit from the input is stored under "und"; no identifier in use is
\* a prefix of another
C12_Witness ==
  /\ Looked
  /\ call.language = en
  /\ Len(call.result) >= 1
  /\ LanguagesAdded(added) = {en, und}
  /\ \E t \in StoredUnder(und) : TrueDistance[call.word, t] = 1
  /\ ResultTerms \subseteq StoredUnder(en)

\* the strings one edit away from s, with the characters of sigma
EditsOver(s, sigma) ==
  {DeleteAt(s, p) : p \in 1..Len(s)}
  \cup {SubSeq(s, 1, p) \o <<c>> \o SubSeq(s, p + 1, Len(s)) :
          p \in 0..Len(s), c \in sigma}
  \cup {[s EXCEPT ![p] = c] : p \in 1..Len(s), c \in sigma}
  \cup {[s EXCEPT ![p] = s[p + 1], ![p + 1] = s[p]] : p \in 1..(Len(s) - 1)}

RECURSIVE StepsTo(_, _, _, _)
\* the number of rounds of single edits after which b is among the strings
\* reached; reached holds the strings at most k edits from the start
StepsTo(reached, b, k, sigma) ==
  IF b \in reached THEN k
  ELSE StepsTo(reached \cup {t \in UNION {EditsOver(u, sigma) : u \in reached} :
                               Len(t) <= MaxLen + 1},
               b, k + 1, sigma)

\* the least number of insertions, deletions, substitutions and adjacent
\* transpositions that make b of a
LeastEdits(a, b) == StepsTo({a}, b, 0, DistanceAlphabet)

ca == <<"c", "a">>
abc == <<"a", "b", "c">>

\* C13: distance(a, b) is the true, unrestricted Damerau-Levenshtein distance:
\* the least number of insertions, deletions, substitutions and adjacent
\* transpositions; so distance("ab", "ba") = 1, distance("ca", "abc") = 2 and
\* distance("", s) = distance(s, "") = length(s).
C13_DistanceIsDamerauLevenshtein ==
  call.op = "distance" =>
    /\ call.result = LeastEdits(call.source, call.target)
    /\ call.source = <<>> => call.result = Len(call.target)
    /\ call.target = <<>> => call.result = Len(call.source)
    /\ (call.source = <<"a", "b">> /\ call.target = <<"b", "a">>) => call.result = 1
    /\ (call.source = ca /\ call.target = abc) => call.result = 2

\* distance("ca", "abc") was computed: 2, where the restricted variant gives 3
C13_Witness ==
  /\ call.op = "distance"
  /\ call.source = ca
  /\ call.target = abc
  /\ call.result = 2

\* the key lookup reads for the input itself
InputKey == OrElse(call.language, und) \o call.word

\* the terms the list at the input's key refers to
NearbyTermsOfInput ==
  {dictionary[InputKey].suggestions[k].term :
     k \in 1..Len(dictionary[InputKey].suggestions)}

\* C14: in SMALLEST and TOP modes lookup stops at distance 0 only on an entry
\* whose term is set; when the input's key exists only as a bucket of nearby
\* terms, the search goes on and a term the input is a delete-variant of is
\* returned.
C14_BucketOnlyInputGoesOn ==
  (/\ Looked
   /\ mode \in {SMALLEST, TOP}
   /\ Has(dictionary, InputKey)
   /\ dictionary[InputKey].term = <<>>) =>
     ResultTerms \cap NearbyTermsOfInput # {}

\* the engine after new SymSpell(maxED, m)
Fresh(maxED, m) == [maxEditDistance |-> maxED, mode |-> m, dictionary |-> <<>>]

RECURSIVE Fed(_, _, _)
\* the engine self after the addWord calls calls[k], calls[k + 1], ...
Fed(self, calls, k) ==
  IF k > Len(calls) THEN self
  ELSE Fed([self EXCEPT !.dictionary = addWord(self, calls[k][2], calls[k][1])],
           calls, k + 1)

\* the calls with the last two in the other order
LastTwoSwapped(calls) ==
  LET n == Len(calls)
  IN [k \in 1..n |-> IF k = n - 1 THEN calls[n]
                     ELSE IF k = n THEN calls[n - 1] ELSE calls[k]]

\* the suggestions of a list, as a set
AsSet(list) == {list[k] : k \in 1..Len(list)}

\* C15: insertion order does not matter: whatever was added before, adding a
\* and then b gives, for every input and in ALL mode, the same set of
\* suggestions (term, distance, count) as adding b and then a.
C15_InsertionOrderIrrelevant ==
  (mode = ALL /\ Len(order) >= 2) =>
    LET other == Fed(Fresh(maxEditDistance, mode), LastTwoSwapped(order), 1)
    IN \A w \in ShortInputs, l \in Languages :
         AsSet(lookup(Self, w, l)) = AsSet(lookup(other, w, l))

\* what the ALL-mode engine with the same maxEditDistance, fed the same
\* addWord calls, returns for the input of the last call
AllModeResult ==
  lookup(Fed(Fresh(maxEditDistance, ALL), order, 1), call.word, call.language)

\* the suggestions of a list that have the least distance in it
Closest(list) ==
  {s \in AsSet(list) : \A t \in AsSet(list) : s.distance <= t.distance}

\* C16: two engines with the same maxEditDistance fed the same addWord calls,
\* one in ALL mode and one in SMALLEST mode, agree on the closest matches: the
\* SMALLEST-mode result is the set of the ALL-mode suggestions that have the
\* least distance of the ALL-mode result.
C16_SmallestIsClosestOfAll ==
  (Looked /\ mode = SMALLEST) => AsSet(call.result) = Closest(AllModeResult)

RECURSIVE IsSubsequence(_, _)
\* v is what is left of t after deleting some of its characters
IsSubsequence(v, t) ==
  IF Len(v) = 0 THEN TRUE
  ELSE IF Len(t) = 0 THEN FALSE
  ELSE IF Head(v) = Head(t) THEN IsSubsequence(Tail(v), Tail(t))
  ELSE IsSubsequence(v, Tail(t))

\* the deletion distances to v of the terms added under l that have v as a
\* delete-variant within maxEditDistance
DeletionDistances(l, v) ==
  {Len(t) - Len(v) : t \in {u \in TermsAdded(l) :
                              /\ Len(u) - Len(v) \in 1..maxEditDistance
                              /\ IsSubsequence(v, u)}}

\* C17: in TOP and SMALLEST modes every entry's list of nearby terms holds
\* only minimal-distance references: all references of one list have the same
\* deletion distance, the least over all terms added so far under the language
\* that have the key as a delete-variant within maxEditDistance.
C17_NearbyTermsAreMinimal ==
  mode \in {TOP, SMALLEST} =>
    \A l \in Languages, v \in Inputs :
      Has(dictionary, l \o v) =>
        \A k \in 1..Len(dictionary[l \o v].suggestions) :
          /\ DeletionDistances(l, v) # {}
          /\ \A d \in DeletionDistances(l, v) :
               dictionary[l \o v].suggestions[k].distance <= d

\* the run of the lookup of the last call
LastRun == lookupRun(Self, call.word, call.language)

\* the candidates of a run left the queue in non-decreasing distance order,
\* none of them twice
PoppedInOrder(popped) ==
  \A i \in 1..Len(popped), j \in 1..Len(popped) :
    i < j => /\ popped[i].distance <= popped[j].distance
             /\ popped[i].term # popped[j].term

\* the candidates left in the queue are at least as far as the last popped
\* one, and farther than the best suggestion when that is what stopped the run
RestIsFarther(m, last, candidates, suggestions) ==
  \A k \in 1..Len(candidates) :
    /\ candidates[k].distance >= last.distance
    /\ (m # ALL /\ Len(suggestions) > 0
        /\ last.distance > suggestions[1].distance) =>
          candidates[k].distance > suggestions[1].distance

RunIsOrdered(m, run) ==
  /\ PoppedInOrder(run.popped)
  /\ run.stopped =>
       RestIsFarther(m, run.popped[Len(run.popped)], run.candidates, run.suggestions)

\* C18: during a lookup the candidates leave the queue in non-decreasing
\* distance order and no candidate string is taken twice; so when the
\* early-stop check fires, every candidate still queued is at least as far as
\* the popped one, hence strictly farther than the best distance recorded in
\* the modes other than ALL.
C18_QueueIsOrdered == Looked => RunIsOrdered(mode, LastRun)

\* the run stopped early on a candidate farther than the best suggestion, with
\* candidates left in the queue, after taking the string t from the queue
StoppedWithRest(run, t) ==
  /\ run.stopped
  /\ Len(run.candidates) >= 1
  /\ Len(run.suggestions) >= 1
  /\ run.popped[Len(run.popped)].distance > run.suggestions[1].distance
  /\ \E k \in 1..Len(run.popped) : run.popped[k].term = t

\* a SMALLEST-mode lookup of "inn", which two deletions turn into "in",
\* stopped early with candidates left in the queue
C18_Witness ==
  /\ Looked
  /\ mode = SMALLEST
  /\ call.word = <<"i", "n", "n">>
  /\ StoppedWithRest(LastRun, in)

\* the strings obtained from term by deleting d of its characters
Deleted(term, d) ==
  IF d > Len(term) THEN {}
  ELSE {v \in StringsOverOfLen(DistanceAlphabet, Len(term) - d) :
          IsSubsequence(v, term)}

\* the strings obtained by deleting between 1 and k characters, each with the
\* distance spent + the number of characters deleted
Variants(term, spent, k) ==
  UNION {{EditItem(v, spent + d) : v \in Deleted(term, d)} : d \in 1..k}

NonEmpty(items) == {p \in items : p.term # <<>>}

Permuted == call.op = "computePermutations"

C20_NoRepeatedVariant ==
  Permuted =>
    \A i \in 1..Len(call.result), j \in 1..Len(call.result) :
      i # j => call.result[i].term # call.result[j].term

=============================================================================
